---- MODULE Spec2Model ----
(***************************************************************************)
(* The custom scalar integration layer exercised by                        *)
(* integration_tests/juniper_tests/src/codegen/derive_scalar.rs.           *)
(*                                                                         *)
(* Each test module of the file declares one scalar binding and a query    *)
(* root with one field that echoes its argument.  The model holds the      *)
(* declarations, the three operations of each binding (token validation,   *)
(* input decoding, output encoding), and one request at a time running     *)
(* through the engine: document parsing (token validation), then per field *)
(* decoding, resolving and encoding; or, for `__type`, a registry lookup.  *)
(*                                                                         *)
(* The derive macro, the executor and the introspection system are not     *)
(* part of the file; they are modelled from the specification.  chrono's   *)
(* RFC 3339 parser and formatter are modelled at the calls the file makes. *)
(***************************************************************************)
EXTENDS Integers, Sequences, FiniteSets, TLC

VARIABLES build, schemaMod, req, inputs, pc, idx, native, data, errors,
          calls, nq, echoOf

vars == <<build, schemaMod, req, inputs, pc, idx, native, data, errors,
          calls, nq, echoOf>>

-----------------------------------------------------------------------------
(* Bounds of the model.                                                    *)

\* Integer samples lie within Spread of 0 and of either end of the i32 range.
Spread == 1
\* A request selects between 1 and MaxFields aliased fields.
MaxFields == 2
\* Requests of one behaviour: the first, and those that feed a response back.
MaxRequests == 2

(* The range of the wrapped `i32`.                                         *)
I32Max == 2147483647
I32Min == -I32Max - 1

InI32(n) == I32Min <= n /\ n <= I32Max

\* An absent attribute (`None`).
NoneStr == "<none>"

-----------------------------------------------------------------------------
(* The ten scalar declarations of the file, one per test module.           *)

TrivialUnnamed ==
    [mod |-> "trivial_unnamed", ident |-> "Counter", name |-> NoneStr,
     doc |-> NoneStr, desc |-> NoneStr, url |-> NoneStr,
     to_output |-> "default", from_input |-> "default",
     parse_token |-> "default", scalar |-> "DefaultScalarValue",
     shape |-> "tuple", inner |-> "i32", field |-> "counter"]

TrivialNamed ==
    [mod |-> "trivial_named", ident |-> "Counter", name |-> NoneStr,
     doc |-> NoneStr, desc |-> NoneStr, url |-> NoneStr,
     to_output |-> "default", from_input |-> "default",
     parse_token |-> "default", scalar |-> "DefaultScalarValue",
     shape |-> "named", inner |-> "i32", field |-> "counter"]

\* Mutant: the `name` attribute is missing.
ExplicitNameNoOverride ==
    [mod |-> "explicit_name", ident |-> "CustomCounter", name |-> NoneStr,
     doc |-> NoneStr, desc |-> NoneStr, url |-> NoneStr,
     to_output |-> "default", from_input |-> "default",
     parse_token |-> "default", scalar |-> "DefaultScalarValue",
     shape |-> "tuple", inner |-> "i32", field |-> "counter"]

\* Mutant: the override is misspelt.
ExplicitNameMisspelt ==
    [mod |-> "explicit_name", ident |-> "CustomCounter", name |-> "Countr",
     doc |-> NoneStr, desc |-> NoneStr, url |-> NoneStr,
     to_output |-> "default", from_input |-> "default",
     parse_token |-> "default", scalar |-> "DefaultScalarValue",
     shape |-> "tuple", inner |-> "i32", field |-> "counter"]

ExplicitName ==
    [mod |-> "explicit_name", ident |-> "CustomCounter", name |-> "Counter",
     doc |-> NoneStr, desc |-> NoneStr, url |-> NoneStr,
     to_output |-> "default", from_input |-> "default",
     parse_token |-> "default", scalar |-> "DefaultScalarValue",
     shape |-> "tuple", inner |-> "i32", field |-> "counter"]

CustomToOutput ==
    [mod |-> "custom_to_output", ident |-> "Increment", name |-> NoneStr,
     doc |-> NoneStr, desc |-> NoneStr, url |-> NoneStr,
     to_output |-> "custom", from_input |-> "default",
     parse_token |-> "default", scalar |-> "DefaultScalarValue",
     shape |-> "tuple", inner |-> "i32", field |-> "increment"]

\* Mutant: the `specified_by_url` attribute is missing.
GenericWithAllResolversNoUrl ==
    [mod |-> "generic_with_all_resolvers", ident |-> "CustomDateTime",
     name |-> NoneStr, doc |-> NoneStr, desc |-> NoneStr, url |-> NoneStr,
     to_output |-> "custom", from_input |-> "custom",
     parse_token |-> "custom", scalar |-> "S: ScalarValue",
     shape |-> "named", inner |-> "DateTime", field |-> "dateTime"]

GenericWithAllResolvers ==
    [mod |-> "generic_with_all_resolvers", ident |-> "CustomDateTime",
     name |-> NoneStr, doc |-> NoneStr, desc |-> NoneStr,
     url |-> "https://tools.ietf.org/html/rfc3339",
     to_output |-> "custom", from_input |-> "custom",
     parse_token |-> "custom", scalar |-> "S: ScalarValue",
     shape |-> "named", inner |-> "DateTime", field |-> "dateTime"]

DescriptionFromDocComment ==
    [mod |-> "description_from_doc_comment", ident |-> "Counter",
     name |-> NoneStr, doc |-> "Doc comment.", desc |-> NoneStr,
     url |-> NoneStr,
     to_output |-> "default", from_input |-> "default",
     parse_token |-> "default", scalar |-> "DefaultScalarValue",
     shape |-> "tuple", inner |-> "i32", field |-> "counter"]

\* Mutant: the `desc` attribute is missing, the documentation comment stays.
DescriptionFromAttributeNoDesc ==
    [mod |-> "description_from_attribute", ident |-> "Counter",
     name |-> NoneStr, doc |-> "Doc comment.", desc |-> NoneStr,
     url |-> "https://tools.ietf.org/html/rfc4122",
     to_output |-> "default", from_input |-> "default",
     parse_token |-> "default", scalar |-> "DefaultScalarValue",
     shape |-> "tuple", inner |-> "i32", field |-> "counter"]

DescriptionFromAttribute ==
    [mod |-> "description_from_attribute", ident |-> "Counter",
     name |-> NoneStr, doc |-> "Doc comment.",
     desc |-> "Doc comment from attribute.",
     url |-> "https://tools.ietf.org/html/rfc4122",
     to_output |-> "default", from_input |-> "default",
     parse_token |-> "default", scalar |-> "DefaultScalarValue",
     shape |-> "tuple", inner |-> "i32", field |-> "counter"]

CustomScalar ==
    [mod |-> "custom_scalar", ident |-> "Counter", name |-> NoneStr,
     doc |-> NoneStr, desc |-> NoneStr, url |-> NoneStr,
     to_output |-> "default", from_input |-> "default",
     parse_token |-> "default", scalar |-> "MyScalarValue",
     shape |-> "tuple", inner |-> "i32", field |-> "counter"]

GenericScalar ==
    [mod |-> "generic_scalar", ident |-> "Counter", name |-> NoneStr,
     doc |-> NoneStr, desc |-> NoneStr, url |-> NoneStr,
     to_output |-> "default", from_input |-> "default",
     parse_token |-> "default", scalar |-> "S: ScalarValue",
     shape |-> "tuple", inner |-> "i32", field |-> "counter"]

BoundedGenericScalar ==
    [mod |-> "bounded_generic_scalar", ident |-> "Counter", name |-> NoneStr,
     doc |-> NoneStr, desc |-> NoneStr, url |-> NoneStr,
     to_output |-> "default", from_input |-> "default",
     parse_token |-> "default", scalar |-> "S: ScalarValue + Clone",
     shape |-> "tuple", inner |-> "i32", field |-> "counter"]

Declarations ==
    {TrivialUnnamed, TrivialNamed, ExplicitName, CustomToOutput,
     GenericWithAllResolvers, DescriptionFromDocComment,
     DescriptionFromAttribute, CustomScalar, GenericScalar,
     BoundedGenericScalar}

Modules == {d.mod : d \in Declarations}

Decl(m) == CHOOSE d \in Declarations : d.mod = m

\* The scalar-value implementation the module's schema is built with:
\* `schema_with_scalar::<MyScalarValue, _, _>` in custom_scalar, `schema`
\* (DefaultScalarValue) everywhere else.
SchemaScalar(m) ==
    IF m = "custom_scalar" THEN "MyScalarValue" ELSE "DefaultScalarValue"

-----------------------------------------------------------------------------
(* Text.  A string is the sequence of its bytes, an ASCII byte written as  *)
(* its character and any other byte by its code between angle brackets.    *)
(* A text that no operation scans (a name, a description, a URL, the       *)
(* digits of an integer too wide for an i32) is kept in one piece.         *)

Piece(x) == <<x>>

NoStr == <<>>

\* The characters of a string.
RECURSIVE Text(_)
Text(s) == IF s = <<>> THEN "" ELSE Head(s) \o Text(Tail(s))

DigitChars == {"0", "1", "2", "3", "4", "5", "6", "7", "8", "9"}

DigitChar(n) == ToString(n)

DigitVal(c) == CHOOSE n \in 0 .. 9 : DigitChar(n) = c

\* U+2212 MINUS SIGN, in UTF-8.
Utf8Minus == <<"<E2>", "<88>", "<92>">>

Abs(n) == IF n < 0 THEN -n ELSE n

\* `{:0w}` of a natural number: at least w digits.
RECURSIVE Padded(_, _)
Padded(n, w) ==
    IF w <= 1 /\ n < 10 THEN <<DigitChar(n)>>
    ELSE Padded(n \div 10, w - 1) \o <<DigitChar(n % 10)>>

Pad2(n) == Padded(n, 2)

Pad4(n) == Padded(n, 4)

\* An offset of `minutes`, written `+HH:MM` or `-HH:MM`.
Offset(minutes) ==
    <<IF minutes < 0 THEN "-" ELSE "+">>
        \o Pad2(Abs(minutes) \div 60) \o <<":">> \o Pad2(Abs(minutes) % 60)

Zulu == <<"Z">>

\* The text YYYY-MM-DD, a separator, HH:MM:SS, a fraction and a zone.
TsStr(y, mo, d, sep, h, mi, s, frac, zone) ==
    Pad4(y) \o <<"-">> \o Pad2(mo) \o <<"-">> \o Pad2(d) \o <<sep>>
        \o Pad2(h) \o <<":">> \o Pad2(mi) \o <<":">> \o Pad2(s)
        \o frac \o zone

-----------------------------------------------------------------------------
(* Wire values: ScalarValue, InputValue and Value share one record shape,  *)
(* [k: kind, n: number, s: string]; a field a kind does not use is 0 or    *)
(* the empty string.  A Float x.5 is kept by its integer part, a List is   *)
(* the one-element list [n], an Object the one-field object {a: n}.  An    *)
(* integer that does not fit an i32 (an Int token with too many digits,    *)
(* MyScalarValue's Long) is kept by its digits, in s.                      *)

Val(k, n, s) == [k |-> k, n |-> n, s |-> s]

Digits(v) == IF v.s = NoStr THEN ToString(v.n) ELSE Text(v.s)

NullValue == Val("Null", 0, NoStr)
IntValue(n) == Val("Int", n, NoStr)
StringValue(s) == Val("String", 0, s)

\* `impl Display for InputValue`, used by `format!("... {}", v)`.
Display(v) ==
    CASE v.k = "Null" -> "null"
      [] v.k = "Int" -> Digits(v)
      [] v.k = "Long" -> Digits(v)
      [] v.k = "Float" -> ToString(v.n) \o ".5"
      [] v.k = "String" -> "\"" \o Text(v.s) \o "\""
      [] v.k = "Boolean" -> (IF v.n = 1 THEN "true" ELSE "false")
      [] v.k = "Enum" -> "RED"
      [] v.k = "List" -> "[" \o ToString(v.n) \o "]"
      [] v.k = "Object" -> "{a: " \o ToString(v.n) \o "}"

-----------------------------------------------------------------------------
(* Native values: [n: the wrapped i32, dt: the wrapped DateTime<Utc>].     *)
(* A date-time is a proleptic Gregorian date, the second of its day and    *)
(* the nanoseconds past that second; as in chrono, a leap second is the    *)
(* 59th second of its minute with 1_000_000_000 nanoseconds or more.       *)

DateTime(y, mo, d, sod, frac) ==
    [y |-> y, mo |-> mo, d |-> d, sod |-> sod, frac |-> frac]

NoDT == DateTime(0, 0, 0, 0, 0)

Wrapped(n) == [n |-> n, dt |-> NoDT]
WrappedDT(dt) == [n |-> 0, dt |-> dt]
NoNative == Wrapped(0)

Ok(v) == [ok |-> TRUE, val |-> v, err |-> ""]
Err(msg) == [ok |-> FALSE, val |-> NoNative, err |-> msg]

IsLeap(y) == (y % 4 = 0 /\ y % 100 # 0) \/ y % 400 = 0

DaysInMonth(y, mo) ==
    IF mo = 2 THEN (IF IsLeap(y) THEN 29 ELSE 28)
    ELSE IF mo \in {4, 6, 9, 11} THEN 30 ELSE 31

NextDay(dt) ==
    IF dt.d < DaysInMonth(dt.y, dt.mo) THEN [dt EXCEPT !.d = dt.d + 1]
    ELSE IF dt.mo < 12 THEN [dt EXCEPT !.mo = dt.mo + 1, !.d = 1]
    ELSE [dt EXCEPT !.y = dt.y + 1, !.mo = 1, !.d = 1]

PrevDay(dt) ==
    IF dt.d > 1 THEN [dt EXCEPT !.d = dt.d - 1]
    ELSE IF dt.mo > 1
         THEN [dt EXCEPT !.mo = dt.mo - 1,
                         !.d = DaysInMonth(dt.y, dt.mo - 1)]
    ELSE [dt EXCEPT !.y = dt.y - 1, !.mo = 12, !.d = 31]

-----------------------------------------------------------------------------
(* What the build leaves open: whether integer overflow checks are         *)
(* compiled in (the debug and test profiles) or not (the release profile), *)
(* and the chrono release that `chrono = "0.4"` resolves to.  Of the       *)
(* release it matters how `parse_from_rfc3339` reads its input (field by   *)
(* field, as the releases of the file's time do, or the first 19 bytes at  *)
(* once, as the current releases do) and whether `to_rfc3339` writes a     *)
(* year outside 0..=9999 with its sign or panics on it.                    *)

Builds ==
    [overflow_checks : BOOLEAN,
     year_out_of_range : {"signed", "panic"},
     rfc3339_parser : {"scanning", "fixed_width"}]

-----------------------------------------------------------------------------
(* chrono's RFC 3339 parser, `DateTime::parse_from_rfc3339`.               *)

\* chrono's ParseError, as displayed.
TooShort == "premature end of input"
TooLong == "trailing input"
Invalid == "input contains invalid characters"
OutOfRange == "input is out of range"

\* The result of a scanner: the position after what it consumed and the
\* value it read, or the cause of its failure.
Scanned(pos, val) == [cause |-> "", pos |-> pos, val |-> val]
ScanFailed(cause) == [cause |-> cause, pos |-> 0, val |-> 0]

IsDigit(s, pos) == pos <= Len(s) /\ s[pos] \in DigitChars

\* The number of digits at pos, counted up to max.
RECURSIVE LeadingDigits(_, _, _)
LeadingDigits(s, pos, max) ==
    IF max = 0 \/ ~IsDigit(s, pos) THEN 0
    ELSE 1 + LeadingDigits(s, pos + 1, max - 1)

\* The number written by the k digits at pos.
RECURSIVE NumberAt(_, _, _)
NumberAt(s, pos, k) ==
    IF k = 0 THEN 0
    ELSE NumberAt(s, pos, k - 1) * 10 + DigitVal(s[pos + k - 1])

\* The number of the k digits found at pos, if they are min at least.
NumberOf(s, pos, min, k) ==
    IF k < min THEN ScanFailed(Invalid)
    ELSE Scanned(pos + k, NumberAt(s, pos, k))

\* `scan::number(s, min, max)`: between min and max digits.  Input shorter
\* than min ends prematurely, whatever it holds.
Number(s, pos, min, max) ==
    IF Len(s) - pos + 1 < min THEN ScanFailed(TooShort)
    ELSE NumberOf(s, pos, min, LeadingDigits(s, pos, max))

\* `scan::char(s, c)`.
Char(s, pos, c) ==
    IF pos > Len(s) THEN ScanFailed(TooShort)
    ELSE IF s[pos] = c THEN Scanned(pos + 1, 0)
    ELSE ScanFailed(Invalid)

\* The separator of date and time, for the scanning parser.
Separator(s, pos) ==
    IF pos > Len(s) THEN ScanFailed(TooShort)
    ELSE IF s[pos] \in {"T", "t"} THEN Scanned(pos + 1, 0)
    ELSE ScanFailed(Invalid)

Scale ==
    <<100000000, 10000000, 1000000, 100000, 10000, 1000, 100, 10, 1>>

\* The digits r read at pos, scaled to nanoseconds; the digits that follow
\* them are skipped.
Scaled(s, pos, r) ==
    IF r.cause # "" THEN r
    ELSE Scanned(r.pos + LeadingDigits(s, r.pos, Len(s)),
                 r.val * Scale[r.pos - pos])

\* `scan::nanosecond(s)`: one to nine digits scaled to nanoseconds; the
\* digits after the ninth are skipped.
Nanosecond(s, pos) == Scaled(s, pos, Number(s, pos, 1, 9))

\* The optional fraction of the second.
Fraction(s, pos) ==
    IF pos <= Len(s) /\ s[pos] = "." THEN Nanosecond(s, pos + 1)
    ELSE Scanned(pos, 0)

\* The sign of an offset: `+` or `-`, and for the fixed-width parser
\* U+2212 as well.  val is -1 or 1.
OffsetSign(rel, s, pos) ==
    IF pos > Len(s) THEN ScanFailed(TooShort)
    ELSE IF s[pos] = "+" THEN Scanned(pos + 1, 1)
    ELSE IF s[pos] = "-" THEN Scanned(pos + 1, -1)
    ELSE IF /\ rel = "fixed_width"
            /\ pos + 2 <= Len(s)
            /\ SubSeq(s, pos, pos + 2) = Utf8Minus
         THEN Scanned(pos + 3, -1)
    ELSE ScanFailed(Invalid)

\* The two digits of the hours of an offset.
OffsetHours(s, pos) ==
    IF Len(s) - pos + 1 < 2 THEN ScanFailed(TooShort)
    ELSE IF IsDigit(s, pos) /\ IsDigit(s, pos + 1)
         THEN Scanned(pos + 2, NumberAt(s, pos, 2))
    ELSE ScanFailed(Invalid)

\* The two digits of the minutes of an offset, which may not be missing.
OffsetMinutes(s, pos) ==
    IF Len(s) - pos + 1 < 2 THEN ScanFailed(TooShort)
    ELSE IF ~(IsDigit(s, pos) /\ IsDigit(s, pos + 1))
         THEN ScanFailed(Invalid)
    ELSE IF DigitVal(s[pos]) > 5 THEN ScanFailed(OutOfRange)
    ELSE Scanned(pos + 2, NumberAt(s, pos, 2))

\* `scan::timezone_offset`: sign, hours, colon, minutes, each scanned
\* where the one before it ended, the first failure ending the scan; val is
\* the offset in minutes.
OffsetOf(sg, hh, mm) ==
    IF mm.cause # "" THEN mm
    ELSE Scanned(mm.pos, sg.val * (hh.val * 60 + mm.val))

AfterColon(s, sg, hh, co) ==
    IF co.cause # "" THEN co
    ELSE OffsetOf(sg, hh, OffsetMinutes(s, co.pos))

AfterHours(s, sg, hh) ==
    IF hh.cause # "" THEN hh
    ELSE AfterColon(s, sg, hh, Char(s, hh.pos, ":"))

AfterSign(s, sg) ==
    IF sg.cause # "" THEN sg
    ELSE AfterHours(s, sg, OffsetHours(s, sg.pos))

TimezoneOffset(rel, s, pos) == AfterSign(s, OffsetSign(rel, s, pos))

\* The zone: `Z` or `z`, for the scanning parser `UTC` in any case as
\* well, or an offset.
TimezoneOffsetZulu(rel, s, pos) ==
    IF pos <= Len(s) /\ s[pos] \in {"Z", "z"} THEN Scanned(pos + 1, 0)
    ELSE IF rel = "scanning" /\ pos <= Len(s) /\ s[pos] \in {"U", "u"}
         THEN IF /\ pos + 2 <= Len(s)
                 /\ s[pos + 1] \in {"T", "t"}
                 /\ s[pos + 2] \in {"C", "c"}
              THEN Scanned(pos + 3, 0)
              ELSE ScanFailed(Invalid)
    ELSE TimezoneOffset(rel, s, pos)

\* The fields `Parsed` collects.
NoFields ==
    [year |-> 0, month |-> 0, day |-> 0, hour |-> 0, minute |-> 0,
     second |-> 0, nano |-> 0, offset |-> 0]

\* The items of an RFC 3339 timestamp, in the order they are scanned.
Rfc3339Items ==
    <<"year", "-", "month", "-", "day", "T", "hour", ":", "minute", ":",
      "second", "nano", "offset">>

ScanItem(rel, item, s, pos) ==
    CASE item = "year" -> Number(s, pos, 4, 4)
      [] item \in {"month", "day", "hour", "minute", "second"} ->
            Number(s, pos, 2, 2)
      [] item \in {"-", ":"} -> Char(s, pos, item)
      [] item = "T" -> Separator(s, pos)
      [] item = "nano" -> Fraction(s, pos)
      [] item = "offset" -> TimezoneOffsetZulu(rel, s, pos)

RECURSIVE ScanItems(_, _, _, _, _)

\* The i-th item was scanned with result r: a failure ends the scan, a
\* value is kept in its field and the scan goes on after it.
AfterItem(rel, s, pos, i, acc, r) ==
    IF r.cause # "" THEN [cause |-> r.cause, pos |-> pos, acc |-> acc]
    ELSE ScanItems(rel, s, r.pos, i + 1,
                   IF Rfc3339Items[i] \in DOMAIN acc
                   THEN [acc EXCEPT ![Rfc3339Items[i]] = r.val] ELSE acc)

\* The items from the i-th on are scanned from pos.
ScanItems(rel, s, pos, i, acc) ==
    IF i > Len(Rfc3339Items) THEN [cause |-> "", pos |-> pos, acc |-> acc]
    ELSE AfterItem(rel, s, pos, i, acc,
                   ScanItem(rel, Rfc3339Items[i], s, pos))

\* The fields name a day of the calendar (`NaiveDate::from_ymd_opt`).
DateInRange(f) ==
    /\ f.month \in 1 .. 12
    /\ f.day \in 1 .. DaysInMonth(f.year, f.month)

\* The fields name a time of the day; second 60 is a leap second.
TimeInRange(f) ==
    /\ f.hour \in 0 .. 23
    /\ f.minute \in 0 .. 59
    /\ f.second \in 0 .. 60

ParseFailed(cause) ==
    [ok |-> FALSE, cause |-> cause, local |-> NoDT, off |-> 0]

\* The DateTime<FixedOffset> of the fields: the local date and time and
\* the offset in minutes.
Timestamp(f) ==
    [ok |-> TRUE, cause |-> "",
     local |->
        DateTime(f.year, f.month, f.day,
                 f.hour * 3600 + f.minute * 60
                    + (IF f.second = 60 THEN 59 ELSE f.second),
                 f.nano + (IF f.second = 60 THEN 1000000000 ELSE 0)),
     off |-> f.offset]

\* The scanning parser, after the scan r of s: the offset is less than a
\* day, nothing follows the zone, and the fields name a day of the calendar
\* and a time of the day.
Parsed(s, r) ==
    IF r.cause # "" THEN ParseFailed(r.cause)
    ELSE IF Abs(r.acc.offset) >= 1440 THEN ParseFailed(OutOfRange)
    ELSE IF r.pos <= Len(s) THEN ParseFailed(TooLong)
    ELSE IF ~DateInRange(r.acc) \/ ~TimeInRange(r.acc)
         THEN ParseFailed(OutOfRange)
    ELSE Timestamp(r.acc)

\* The fixed-width parser, after the zone z: nothing follows the zone, and
\* the offset is less than a day (`FixedOffset::east_opt`).
FixedZone(s, f, z) ==
    IF z.cause # "" THEN ParseFailed(z.cause)
    ELSE IF z.pos <= Len(s) THEN ParseFailed(TooLong)
    ELSE IF Abs(z.val) >= 1440 THEN ParseFailed(OutOfRange)
    ELSE Timestamp([f EXCEPT !.offset = z.val])

\* The fixed-width parser, after the fraction fr: the time is one of the
\* day (`NaiveTime::from_hms_nano_opt`), then the zone is scanned.
FixedTime(s, f, fr) ==
    IF fr.cause # "" THEN ParseFailed(fr.cause)
    ELSE IF ~TimeInRange(f) THEN ParseFailed(OutOfRange)
    ELSE FixedZone(s, [f EXCEPT !.nano = fr.val],
                   TimezoneOffsetZulu("fixed_width", s, fr.pos))

\* The fixed-width parser, after the date: the separator (`T`, `t` or a
\* space) and HH:MM:SS, then the fraction.
FixedClock(s, f) ==
    IF \/ s[11] \notin {"T", "t", " "}
       \/ \E i \in {12, 13, 15, 16, 18, 19} : s[i] \notin DigitChars
       \/ s[14] # ":" \/ s[17] # ":"
    THEN ParseFailed(Invalid)
    ELSE FixedTime(s, [f EXCEPT !.hour = NumberAt(s, 12, 2),
                                !.minute = NumberAt(s, 15, 2),
                                !.second = NumberAt(s, 18, 2)],
                   Fraction(s, 20))

\* The fixed-width parser, after YYYY-MM-DD: the date is one of the
\* calendar, before anything behind it is looked at.
FixedDate(s, f) ==
    IF ~DateInRange(f) THEN ParseFailed(OutOfRange)
    ELSE FixedClock(s, f)

\* The fixed-width parser: the first 19 bytes are YYYY-MM-DD, a separator
\* and HH:MM:SS.  Fewer than 19 bytes end prematurely, whatever they hold.
FixedWidth(s) ==
    IF Len(s) < 19 THEN ParseFailed(TooShort)
    ELSE IF \/ \E i \in {1, 2, 3, 4, 6, 7, 9, 10} : s[i] \notin DigitChars
            \/ s[5] # "-" \/ s[8] # "-"
         THEN ParseFailed(Invalid)
    ELSE FixedDate(s, [NoFields EXCEPT !.year = NumberAt(s, 1, 4),
                                       !.month = NumberAt(s, 6, 2),
                                       !.day = NumberAt(s, 9, 2)])

\* `DateTime::parse_from_rfc3339(s)`: a DateTime<FixedOffset> or the cause
\* of the failure.  The two parsers accept the same timestamps but for the
\* liberties each takes; where a text has more than one fault they may
\* name different causes.
ParseFromRfc3339(bld, s) ==
    IF bld.rfc3339_parser = "scanning"
    THEN Parsed(s, ScanItems("scanning", s, 1, 1, NoFields))
    ELSE FixedWidth(s)

\* `dt.with_timezone(&Tz::from(Utc))` for Tz = Utc: the same instant, read
\* on the UTC clock.  The offset is less than a day, so the date moves by
\* at most one day; the nanoseconds, a leap second among them, stay.
WithTimezoneUtc(p) ==
    LET t == p.local.sod - p.off * 60
    IN  IF t < 0 THEN [PrevDay(p.local) EXCEPT !.sod = t + 86400]
        ELSE IF t >= 86400 THEN [NextDay(p.local) EXCEPT !.sod = t - 86400]
        ELSE [p.local EXCEPT !.sod = t]

\* RFC 3339 writes a year as four digits.
YearFits(dt) == 0 <= dt.y /\ dt.y <= 9999

\* A year outside 0..=9999 is written with its sign.
YearText(y) ==
    IF 0 <= y /\ y <= 9999 THEN Pad4(y)
    ELSE <<IF y < 0 THEN "-" ELSE "+">> \o Pad4(Abs(y))

\* The fraction of a second: none, or 3, 6 or 9 digits, the fewest that
\* hold it.
SecFrac(nano) ==
    IF nano = 0 THEN <<>>
    ELSE IF nano % 1000000 = 0 THEN <<".">> \o Padded(nano \div 1000000, 3)
    ELSE IF nano % 1000 = 0 THEN <<".">> \o Padded(nano \div 1000, 6)
    ELSE <<".">> \o Padded(nano, 9)

\* `self.dt.to_rfc3339()` for a DateTime<Utc>: the offset is written
\* `+00:00`.  See CustomDateTimeToOutput for the releases that refuse a
\* year outside 0..=9999.
ToRfc3339(dt) ==
    YearText(dt.y) \o <<"-">> \o Pad2(dt.mo) \o <<"-">> \o Pad2(dt.d)
        \o <<"T">> \o Pad2(dt.sod \div 3600) \o <<":">>
        \o Pad2((dt.sod % 3600) \div 60) \o <<":">>
        \o Pad2((dt.sod % 60) + (IF dt.frac >= 1000000000 THEN 1 ELSE 0))
        \o SecFrac(dt.frac % 1000000000)
        \o Offset(0)

-----------------------------------------------------------------------------
(* Token validation (`parse_token`).  A token is a lexical kind (Int,      *)
(* Float or String) with its text, kept in the shape of a wire value.      *)

TokenOk(v) == [ok |-> TRUE, val |-> v]
TokenErr == [ok |-> FALSE, val |-> NullValue]

\* The token rule of `i32`: an Int token whose digits fit an i32.
I32FromStr(tok) ==
    IF tok.k = "Int" /\ tok.s = NoStr /\ InI32(tok.n)
    THEN TokenOk(IntValue(tok.n))
    ELSE TokenErr

\* The token rule of `String`: a String token.
StringFromStr(tok) ==
    IF tok.k = "String" THEN TokenOk(StringValue(tok.s)) ELSE TokenErr

\* Mutant: the validator accepts every token, whatever its kind.
CustomDateTimeParseTokenAny(tok) == TokenOk(tok)

\* CustomDateTime::parse_token.
CustomDateTimeParseToken(tok) == StringFromStr(tok)

\* The binding's token validator: the explicit one if declared, else the
\* wrapped field's.
ParseToken(d, tok) ==
    IF d.parse_token = "custom" THEN CustomDateTimeParseToken(tok)
    ELSE I32FromStr(tok)

-----------------------------------------------------------------------------
(* Input decoding (`from_input`).  A string of the module cannot hold a    *)
(* backquote: the backquotes of the messages are written as apostrophes.   *)

\* The decoder of `i32`: the Int variant, of either scalar-value
\* implementation (MyScalarValue's Long is not an Int).
I32FromInput(v) ==
    IF v.k = "Int" THEN Ok(Wrapped(v.n))
    ELSE Err("Expected 'Int', found: " \o Display(v))

\* Mutant: a string that does not parse becomes the default date-time
\* instead of an error.
CustomDateTimeFromInputLenient(bld, v) ==
    IF v.k # "String" THEN Err("Expected 'String', found: " \o Display(v))
    ELSE LET p == ParseFromRfc3339(bld, v.s)
         IN  IF p.ok THEN Ok(WrappedDT(WithTimezoneUtc(p)))
             ELSE Ok(WrappedDT(DateTime(1970, 1, 1, 0, 0)))

\* CustomDateTime::from_input.  The cause of a failure is chrono's, and so
\* the build's.
CustomDateTimeFromInput(bld, v) ==
    IF v.k # "String" THEN Err("Expected 'String', found: " \o Display(v))
    ELSE LET p == ParseFromRfc3339(bld, v.s)
         IN  IF p.ok THEN Ok(WrappedDT(WithTimezoneUtc(p)))
             ELSE Err("Failed to parse CustomDateTime: " \o p.cause)

FromInput(d, bld, v) ==
    IF d.from_input = "custom" THEN CustomDateTimeFromInput(bld, v)
    ELSE I32FromInput(v)

-----------------------------------------------------------------------------
(* Output encoding (`to_output`).  An encoder returns a value or panics.   *)

Encoded(v) == [panic |-> FALSE, val |-> v]
Panicked == [panic |-> TRUE, val |-> NullValue]

\* The encoder of `i32`.
I32ToOutput(n) == IntValue(n)

\* `n + 1` on i32 overflows exactly at i32::MAX, where the wrapped sum is
\* i32::MIN.
IncOverflows(n) == n = I32Max
WrappingInc(n) == IF IncOverflows(n) THEN I32Min ELSE n + 1

\* Mutant: the encoder forgets to add 1.
IncrementToOutputPlain(bld, val) == Encoded(I32ToOutput(val.n))

\* custom_to_output::to_output: `val.0 + 1` on i32.  On overflow the
\* addition panics where overflow checks are compiled in and wraps where
\* they are not.
IncrementToOutput(bld, val) ==
    IF ~IncOverflows(val.n) THEN Encoded(I32ToOutput(val.n + 1))
    ELSE IF bld.overflow_checks THEN Panicked
    ELSE Encoded(I32ToOutput(WrappingInc(val.n)))

\* CustomDateTime::to_output.
CustomDateTimeToOutput(bld, val) ==
    IF ~YearFits(val.dt) /\ bld.year_out_of_range = "panic" THEN Panicked
    ELSE Encoded(StringValue(ToRfc3339(val.dt)))

ToOutput(d, bld, val) ==
    IF d.to_output = "default" THEN Encoded(I32ToOutput(val.n))
    ELSE IF d.inner = "i32" THEN IncrementToOutput(bld, val)
    ELSE CustomDateTimeToOutput(bld, val)

\* Mutant: the resolver returns a default value, not its argument.
EchoDefault(value) == NoNative

\* The resolver of every query root: `fn counter(value: T) -> T { value }`.
Echo(value) == value

-----------------------------------------------------------------------------
(* Metadata and the type registry.                                         *)

BindingName(d) == IF d.name # NoneStr THEN d.name ELSE d.ident

BindingDescription(d) == IF d.desc # NoneStr THEN d.desc ELSE d.doc

BindingUrl(d) == d.url

Meta(d) ==
    [kind |-> "SCALAR", name |-> BindingName(d),
     description |-> BindingDescription(d), specifiedByUrl |-> BindingUrl(d)]

QueryRootMeta ==
    [kind |-> "OBJECT", name |-> "QueryRoot", description |-> NoneStr,
     specifiedByUrl |-> NoneStr]

\* The types registered by `RootNode::new(QueryRoot, ..)` of module m.
Registry(m) == {Meta(Decl(m)), QueryRootMeta}

\* An optional text as a wire value.
OptText(x) == IF x = NoneStr THEN NullValue ELSE StringValue(Piece(x))

NoData == [null |-> TRUE, fields |-> <<>>]
SomeData(fs) == [null |-> FALSE, fields |-> fs]

\* `{ __type(name: tname) { tfield } }`: the selected metadata field, or a
\* null response when no type is registered under the name.
Introspect(m, tname, tfield) ==
    LET found == {t \in Registry(m) : t.name = tname}
    IN  IF found = {} THEN NoData
        ELSE LET t == CHOOSE x \in found : TRUE
             IN  SomeData(<<OptText(t[tfield])>>)

-----------------------------------------------------------------------------
(* The requests a client may send.  An argument is a literal (a token of   *)
(* the document) or a variable (an input value of the request).            *)

Literal(v) == [src |-> "literal", v |-> v]
Variable(v) == [src |-> "variable", v |-> v]

I32Samples ==
    {I32Min + k : k \in 0 .. Spread} \cup (-Spread .. Spread)
        \cup {I32Max - k : k \in 0 .. Spread}

\* Digits of the integers next to either end of the i32 range.
OutsideI32 == {Piece("-2147483649"), Piece("2147483648")}

TsYears == {0, 1996, 2000, 9999}
TsMonthDays == {<<1, 1>>, <<2, 29>>, <<2, 30>>, <<12, 19>>, <<12, 31>>,
                <<13, 1>>}
TsTimes == {<<0, 0, 0>>, <<16, 39, 57>>, <<23, 59, 59>>}
TsZones == {Zulu} \cup {Offset(m) : m \in {-1439, -480, 0, 60, 1439}}

\* Text of the plain timestamp shape: every sample is an RFC 3339
\* timestamp but those with month 13, 30 February or 29 February of a
\* common year.
TsSamples ==
    {TsStr(y, md[1], md[2], "T", t[1], t[2], t[3], <<>>, z) :
        y \in TsYears, md \in TsMonthDays, t \in TsTimes, z \in TsZones}

\* The literal of resolves_custom_date_time.
TestLiteral == TsStr(1996, 12, 19, "T", 16, 39, 57, <<>>, Offset(-480))

\* The date and time of the test's literal, written otherwise.
TestVariant(sep, s, frac, zone) ==
    TsStr(1996, 12, 19, sep, 16, 39, s, frac, zone)

\* Timestamps of the other shapes of RFC 3339 (lower-case letters, a
\* fraction of a second, a leap second), and text that misses RFC 3339 by
\* one feature: a space for the `T`, U+2212 for the `-` of the offset,
\* `UTC` for the `Z`, an hour, an offset or a minute of the offset out of
\* range, a character after the zone.
TsVariants ==
    {TestVariant("t", 57, <<>>, <<"z">>),
     TestVariant("T", 57, <<".", "5">>, Offset(-480)),
     TestVariant("T", 57, <<".", "1", "2", "3", "4", "5", "6">>, Zulu),
     TestVariant("T", 57,
                 <<".", "1", "2", "3", "4", "5", "6", "7", "8", "9">>,
                 Offset(60)),
     TestVariant("T", 60, <<>>, Offset(-480)),
     TsStr(1996, 12, 31, "T", 23, 59, 60, <<>>, Zulu),
     TestVariant(" ", 57, <<>>, Offset(-480)),
     TestVariant("T", 57, <<>>, Utf8Minus \o <<"0", "8", ":", "0", "0">>),
     TestVariant("T", 57, <<>>, <<"U", "T", "C">>),
     TestVariant("T", 57, <<>>, Offset(1440)),
     TestVariant("T", 57, <<>>, <<"+", "0", "8", ":", "6", "0">>),
     TestVariant("T", 57, <<>>, Zulu \o <<"x">>),
     TsStr(1996, 12, 19, "T", 24, 0, 0, <<>>, Zulu),
     TsStr(1996, 13, 1, "T", 0, 0, 0, <<>>, <<>>)}

\* Text with two faults, of which the parser names the one it meets first.
TwoFaults ==
    {TsStr(1996, 2, 30, "T", 0, 0, 0, <<>>, <<>>),
     TsStr(1996, 2, 30, "T", 0, 0, 0, <<>>, Zulu \o <<"x">>),
     TsStr(1996, 13, 1, "x", 0, 0, 0, <<>>, Zulu),
     TsStr(1996, 12, 19, "T", 24, 0, 0, <<".">>, Zulu),
     TsStr(1996, 12, 19, "T", 24, 0, 0, <<>>, <<"x">>),
     TestVariant("T", 57, <<>>, Offset(1440) \o <<"x">>)}

NotADate == <<"n", "o", "t", "-", "a", "-", "d", "a", "t", "e">>

\* Text that is no timestamp: the empty string, a word, and the test's
\* literal cut after its year, its date, its minutes and its seconds.
RawSamples ==
    {NotADate} \cup {SubSeq(TestLiteral, 1, k) : k \in {0, 4, 10, 16, 19}}

Literals(d) ==
    IF d.inner = "i32"
    THEN {Literal(Val("Int", n, NoStr)) : n \in I32Samples}
         \cup {Literal(Val("Int", 0, s)) : s \in OutsideI32}
         \cup {Literal(Val("Float", 1, NoStr)),
               Literal(Val("String", 0, <<"0">>))}
    ELSE {Literal(Val("String", 0, s)) :
              s \in TsSamples \cup TsVariants \cup TwoFaults
                      \cup RawSamples}
         \cup {Literal(Val("Int", 0, NoStr)), Literal(Val("Float", 1, NoStr))}

Variables(d) ==
    {Variable(Val(k, 1, NoStr)) :
        k \in {"Float", "Boolean", "Enum", "List", "Object"}}
    \cup {Variable(NullValue)}
    \cup (IF d.inner = "i32"
          THEN {Variable(IntValue(n)) : n \in I32Samples}
               \cup {Variable(StringValue(<<"0">>))}
          ELSE {Variable(IntValue(0)), Variable(StringValue(TestLiteral)),
                Variable(StringValue(NotADate))})
    \cup (IF SchemaScalar(d.mod) = "MyScalarValue"
          THEN {Variable(Val("Long", 0, s)) : s \in OutsideI32}
          ELSE {})

FirstArgs(d) == Literals(d) \cup Variables(d)

\* The arguments of the other fields of a request: one that resolves, one
\* that fails to decode, one whose token is rejected.
SiblingArgs(d) ==
    IF d.inner = "i32"
    THEN {Literal(Val("Int", 0, NoStr)), Variable(NullValue),
          Literal(Val("Float", 1, NoStr))}
    ELSE {Literal(Val("String", 0, TestLiteral)),
          Literal(Val("String", 0, NotADate)),
          Variable(IntValue(0)), Literal(Val("Int", 0, NoStr))}

EchoRequest(as) ==
    [op |-> "echo", args |-> as, tname |-> "", tfield |-> ""]

TypeRequest(tname, tfield) ==
    [op |-> "introspect", args |-> <<>>, tname |-> tname, tfield |-> tfield]

NoRequest == [op |-> "none", args |-> <<>>, tname |-> "", tfield |-> ""]

TypeNames ==
    {"Counter", "CustomCounter", "Increment", "CustomDateTime", "QueryRoot"}

TypeFields == {"kind", "name", "description", "specifiedByUrl"}

Requests(m) ==
    {EchoRequest(<<a>> \o rest) :
        a \in FirstArgs(Decl(m)),
        rest \in UNION {[1 .. n -> SiblingArgs(Decl(m))] :
                            n \in 0 .. MaxFields - 1}}
    \cup {TypeRequest(tn, tf) : tn \in TypeNames, tf \in TypeFields}

-----------------------------------------------------------------------------
(* The engine.  pc is the step of the request in hand:                     *)
(*   idle -> parse -> (decode -> resolve -> encode)* -> done               *)
(*                 -> lookup -> done                                       *)
(*                 -> failed         (the document is rejected)            *)
(*   encode -> panicked              (the process is gone)                 *)

NoCalls == [dec |-> {}, res |-> {}, enc |-> {}]

NoEcho == [some |-> FALSE, native |-> NoNative, out |-> NullValue]

Init ==
    /\ build \in Builds
    /\ schemaMod \in Modules
    /\ req = NoRequest
    /\ inputs = <<>>
    /\ pc = "idle"
    /\ idx = 0
    /\ native = NoNative
    /\ data = NoData
    /\ errors = <<>>
    /\ calls = NoCalls
    /\ nq = 0
    /\ echoOf = NoEcho

Begin(r, e) ==
    /\ req' = r
    /\ echoOf' = e
    /\ inputs' = <<>>
    /\ pc' = "parse"
    /\ idx' = 0
    /\ native' = NoNative
    /\ data' = NoData
    /\ errors' = <<>>
    /\ calls' = NoCalls
    /\ nq' = nq + 1
    /\ UNCHANGED <<build, schemaMod>>

\* `execute(DOC, None, &schema, &vars, &())` is called on a fresh schema.
\* The schema never changes, so one request tells nothing about the next:
\* a behaviour follows one request, and the requests that feed its
\* response back.
Submit ==
    /\ pc = "idle"
    /\ nq < MaxRequests
    /\ \E r \in Requests(schemaMod) : Begin(r, NoEcho)

\* The client sends the value a one-field request returned back as the
\* literal argument of the same field.
Resubmit ==
    /\ pc = "done"
    /\ nq < MaxRequests
    /\ req.op = "echo"
    /\ Len(req.args) = 1
    /\ errors = <<>>
    /\ data.fields[1].k \in {"Int", "String"}
    /\ Begin(EchoRequest(<<Literal(data.fields[1])>>),
             [some |-> TRUE, native |-> native, out |-> data.fields[1]])

\* The literal arguments whose token the binding's validator rejects.
Rejected(d, r) ==
    {i \in 1 .. Len(r.args) :
        r.args[i].src = "literal" /\ ~ParseToken(d, r.args[i].v).ok}

Min(S) == CHOOSE i \in S : \A j \in S : i <= j

\* Parsing of the document: every literal of a scalar argument goes
\* through the binding's token validator; one rejected token rejects the
\* document.  Literals and variables become the fields' input values.
ParseDocument ==
    /\ pc = "parse"
    /\ LET d == Decl(schemaMod)
           bad == Rejected(d, req)
       IN  IF req.op = "introspect"
           THEN /\ pc' = "lookup"
                /\ UNCHANGED <<inputs, idx, errors>>
           ELSE IF bad # {}
           THEN /\ pc' = "failed"
                /\ errors' =
                     <<[path |-> Min(bad),
                        msg |-> "Unexpected \""
                                  \o Display(req.args[Min(bad)].v)
                                  \o "\""]>>
                /\ UNCHANGED <<inputs, idx>>
           ELSE /\ pc' = "decode"
                /\ idx' = 1
                /\ inputs' =
                     [i \in 1 .. Len(req.args) |->
                        IF req.args[i].src = "literal"
                        THEN ParseToken(d, req.args[i].v).val
                        ELSE req.args[i].v]
                /\ UNCHANGED errors
    /\ UNCHANGED <<build, schemaMod, req, native, data, calls, nq, echoOf>>

\* The step after field idx: the next field, or the end of the request.
Advance ==
    IF idx < Len(req.args)
    THEN pc' = "decode" /\ idx' = idx + 1
    ELSE pc' = "done" /\ UNCHANGED idx

\* The argument of field idx is decoded.  A failure becomes the field's
\* error and the field's result is null; the resolver is not called.
Decode ==
    /\ pc = "decode"
    /\ LET r == FromInput(Decl(schemaMod), build, inputs[idx])
       IN  /\ calls' = [calls EXCEPT !.dec = @ \cup {idx}]
           /\ IF r.ok
              THEN /\ native' = r.val
                   /\ pc' = "resolve"
                   /\ UNCHANGED <<idx, data, errors>>
              ELSE /\ errors' = Append(errors, [path |-> idx, msg |-> r.err])
                   /\ data' = SomeData(Append(data.fields, NullValue))
                   /\ Advance
                   /\ UNCHANGED native
    /\ UNCHANGED <<build, schemaMod, req, inputs, nq, echoOf>>

\* The resolver of field idx runs on the decoded argument.
Resolve ==
    /\ pc = "resolve"
    /\ calls' = [calls EXCEPT !.res = @ \cup {idx}]
    /\ native' = Echo(native)
    /\ pc' = "encode"
    /\ UNCHANGED <<build, schemaMod, req, inputs, idx, data, errors, nq,
                   echoOf>>

\* The resolver's result is encoded into the response.
Encode ==
    /\ pc = "encode"
    /\ LET o == ToOutput(Decl(schemaMod), build, native)
       IN  /\ calls' = [calls EXCEPT !.enc = @ \cup {idx}]
           /\ IF o.panic
              THEN /\ pc' = "panicked"
                   /\ data' = NoData
                   /\ UNCHANGED idx
              ELSE /\ data' = SomeData(Append(data.fields, o.val))
                   /\ Advance
    /\ UNCHANGED <<build, schemaMod, req, inputs, native, errors, nq,
                   echoOf>>

\* `__type(name:)` reads the registry.
Lookup ==
    /\ pc = "lookup"
    /\ data' = Introspect(schemaMod, req.tname, req.tfield)
    /\ pc' = "done"
    /\ UNCHANGED <<build, schemaMod, req, inputs, idx, native, errors,
                   calls, nq, echoOf>>

Next ==
    \/ Submit
    \/ Resubmit
    \/ ParseDocument
    \/ Decode
    \/ Resolve
    \/ Encode
    \/ Lookup

Spec == Init /\ [][Next]_vars

-----------------------------------------------------------------------------
(* Properties.                                                             *)

Dcl == Decl(schemaMod)

\* A binding derived with no custom operation.
DefaultDerived(d) ==
    /\ d.to_output = "default"
    /\ d.from_input = "default"
    /\ d.parse_token = "default"

\* Field i of the request passes the integer literal n.
PassesInt(i, n) ==
    /\ req.op = "echo"
    /\ i \in 1 .. Len(req.args)
    /\ req.args[i] = Literal(Val("Int", n, NoStr))

\* The request is the one-field request `{ f(value: n) }`.
AsksInt(n) == PassesInt(1, n) /\ Len(req.args) = 1

ErrorPaths == {errors[j].path : j \in 1 .. Len(errors)}

Introspected(tname, tfield) ==
    /\ pc = "done"
    /\ req.op = "introspect"
    /\ req.tname = tname
    /\ req.tfield = tfield

TextData(x) == SomeData(<<StringValue(Piece(x))>>)

(* C1: a default-derived integer wrapper, of the tuple or the named-field  *)
(* shape, echoes every integer of the i32 range: `counter(value: n)`       *)
(* returns n with no error, and the request is neither rejected nor cut    *)
(* short, whichever scalar-value implementation the binding is declared    *)
(* for.                                                                    *)
C1_DefaultCounterEchoes ==
    DefaultDerived(Dcl) =>
        \A n \in I32Samples :
            /\ AsksInt(n) =>
                 /\ pc \notin {"failed", "panicked"}
                 /\ pc = "done" =>
                      data = SomeData(<<IntValue(n)>>) /\ errors = <<>>
            /\ \A i \in 1 .. MaxFields :
                 PassesInt(i, n) /\ pc = "done" =>
                     data.fields[i] = IntValue(n) /\ i \notin ErrorPaths

\* A binding declared for MyScalarValue has returned i32::MAX, and a
\* named-field one a negative number.
C1_Witness ==
    /\ pc = "done"
    /\ \/ /\ Dcl.scalar = "MyScalarValue"
          /\ AsksInt(I32Max)
          /\ data = SomeData(<<IntValue(I32Max)>>)
       \/ /\ Dcl.shape = "named"
          /\ DefaultDerived(Dcl)
          /\ AsksInt(-1)
          /\ data = SomeData(<<IntValue(-1)>>)

\* The name under which the tests of each module introspect its binding.
IntrospectedAs(m) ==
    CASE m = "custom_to_output" -> "Increment"
      [] m = "generic_with_all_resolvers" -> "CustomDateTime"
      [] OTHER -> "Counter"

(* C2: `__type(name: N) { kind }`, for the name N a binding is registered  *)
(* under, returns "SCALAR" with no error, whatever the binding declares.   *)
C2_KindIsScalar ==
    /\ Introspected(IntrospectedAs(schemaMod), "kind") =>
           data = TextData("SCALAR") /\ errors = <<>>
    /\ \A t \in Registry(schemaMod) :
           t.name # "QueryRoot" /\ Introspected(t.name, "kind") =>
               data = TextData("SCALAR") /\ errors = <<>>

\* The kind of the binding with every operation and a URL declared has
\* been read.
C2_Witness ==
    /\ schemaMod = "generic_with_all_resolvers"
    /\ Introspected("CustomDateTime", "kind")
    /\ data = TextData("SCALAR")

(* C3: a binding declared with a name override is registered under the     *)
(* override only: introspecting the override resolves the binding,         *)
(* introspecting the type's own identifier returns null with no error, and *)
(* the field of that type still echoes its argument.                       *)
C3_OverrideHidesIdentifier ==
    /\ schemaMod = "explicit_name" =>
         /\ Introspected("Counter", "kind") => data = TextData("SCALAR")
         /\ Introspected("Counter", "name") => data = TextData("Counter")
         /\ \A f \in TypeFields :
              Introspected("CustomCounter", f) =>
                  data = NoData /\ errors = <<>>
         /\ \A n \in I32Samples :
              AsksInt(n) /\ pc = "done" =>
                  data = SomeData(<<IntValue(n)>>) /\ errors = <<>>
    /\ Dcl.name # NoneStr =>
         \A f \in TypeFields :
            /\ Introspected(Dcl.name, f) => ~data.null /\ errors = <<>>
            /\ Introspected(Dcl.ident, f) => data = NoData /\ errors = <<>>

\* The identifier CustomCounter has been looked up and found missing.
C3_Witness ==
    /\ schemaMod = "explicit_name"
    /\ Introspected("CustomCounter", "kind")
    /\ data = NoData

(* C4: the introspected description is the description override if one is  *)
(* declared, even beside a documentation comment; else the documentation   *)
(* comment if there is one; else null.  Nothing else the binding declares  *)
(* changes it.                                                             *)
C4_DescriptionPrecedence ==
    /\ Introspected(IntrospectedAs(schemaMod), "description") =>
         /\ errors = <<>>
         /\ Dcl.desc # NoneStr => data = TextData(Dcl.desc)
         /\ Dcl.desc = NoneStr /\ Dcl.doc # NoneStr =>
                data = TextData(Dcl.doc)
         /\ Dcl.desc = NoneStr /\ Dcl.doc = NoneStr =>
                data = SomeData(<<NullValue>>)
         /\ schemaMod = "description_from_attribute" =>
                data = TextData("Doc comment from attribute.")
         /\ schemaMod = "description_from_doc_comment" =>
                data = TextData("Doc comment.")
         /\ schemaMod \in {"trivial_unnamed", "trivial_named",
                           "explicit_name", "custom_to_output",
                           "custom_scalar"} =>
                data = SomeData(<<NullValue>>)

\* The override has been returned for the binding that also has a
\* documentation comment.
C4_Witness ==
    /\ schemaMod = "description_from_attribute"
    /\ Dcl.doc = "Doc comment."
    /\ Introspected("Counter", "description")
    /\ data = TextData("Doc comment from attribute.")

(* C5: `specifiedByUrl` is the declared URL, exactly, for a binding that   *)
(* declares one, with or without custom operations, description override   *)
(* or documentation comment; it is null for a binding that declares none.  *)
C5_SpecifiedByUrl ==
    Introspected(IntrospectedAs(schemaMod), "specifiedByUrl") =>
        /\ errors = <<>>
        /\ Dcl.url # NoneStr => data = TextData(Dcl.url)
        /\ Dcl.url = NoneStr => data = SomeData(<<NullValue>>)
        /\ schemaMod = "generic_with_all_resolvers" =>
               data = TextData("https://tools.ietf.org/html/rfc3339")
        /\ schemaMod = "description_from_attribute" =>
               data = TextData("https://tools.ietf.org/html/rfc4122")

\* The URL of CustomDateTime has been read, and the null of a binding
\* without one.
C5_Witness ==
    \/ /\ schemaMod = "generic_with_all_resolvers"
       /\ Introspected("CustomDateTime", "specifiedByUrl")
       /\ data = TextData("https://tools.ietf.org/html/rfc3339")
    \/ /\ schemaMod = "trivial_unnamed"
       /\ Introspected("Counter", "specifiedByUrl")
       /\ data = SomeData(<<NullValue>>)

\* The response holds the successor of n.  No Int value is the successor of
\* i32::MAX.
ReportsSuccessor(n) ==
    n < I32Max /\ data = SomeData(<<IntValue(n + 1)>>)

(* C6: `increment(value: n)` is accepted for every n of the i32 range and  *)
(* the response reports n + 1 with no error; the encoder of Increment      *)
(* fails for no such n.                                                    *)
C6_IncrementReportsSuccessor ==
    schemaMod = "custom_to_output" =>
        \A n \in I32Samples :
            AsksInt(n) =>
                /\ pc \notin {"failed", "panicked"}
                /\ pc = "done" => errors = <<>> /\ ReportsSuccessor(n)

\* The request is the one-field request `{ dateTime(value: "...") }`.
AsksString ==
    /\ req.op = "echo"
    /\ Len(req.args) = 1
    /\ req.args[1].src = "literal"
    /\ req.args[1].v.k = "String"

\* The position of the zone of a text whose first 19 bytes are a date and
\* a time: after the seconds, or after the fraction that follows them (0 if
\* the fraction has no digit).
ZoneStart(s) ==
    IF Len(s) >= 20 /\ s[20] = "."
    THEN (IF IsDigit(s, 21) THEN 21 + LeadingDigits(s, 21, Len(s)) ELSE 0)
    ELSE 20

\* The zone at z ends the text and is `Z` or an offset of less than a day.
ValidZone(s, z) ==
    \/ Len(s) = z /\ s[z] \in {"Z", "z"}
    \/ /\ Len(s) = z + 5
       /\ s[z] \in {"+", "-"}
       /\ \A i \in {z + 1, z + 2, z + 4, z + 5} : s[i] \in DigitChars
       /\ s[z + 3] = ":"
       /\ NumberAt(s, z + 1, 2) <= 23
       /\ NumberAt(s, z + 4, 2) <= 59

\* The text is a timestamp of RFC 3339 (section 5.6): a four-digit year, a
\* date of the calendar, `T`, a time of the day whose second may be 60, an
\* optional fraction, and `Z` or an offset; letters in either case.
ValidRfc3339(s) ==
    /\ Len(s) >= 20
    /\ \A i \in {1, 2, 3, 4, 6, 7, 9, 10, 12, 13, 15, 16, 18, 19} :
          s[i] \in DigitChars
    /\ s[5] = "-" /\ s[8] = "-" /\ s[11] \in {"T", "t"}
    /\ s[14] = ":" /\ s[17] = ":"
    /\ NumberAt(s, 6, 2) \in 1 .. 12
    /\ NumberAt(s, 9, 2) \in
          1 .. DaysInMonth(NumberAt(s, 1, 4), NumberAt(s, 6, 2))
    /\ NumberAt(s, 12, 2) <= 23
    /\ NumberAt(s, 15, 2) <= 59
    /\ NumberAt(s, 18, 2) <= 60
    /\ ZoneStart(s) # 0
    /\ ValidZone(s, ZoneStart(s))

\* Days from 1970-01-01 to the date (proleptic Gregorian calendar).
DaysFromCivil(y, mo, d) ==
    LET yy == IF mo <= 2 THEN y - 1 ELSE y
        era == yy \div 400
        yoe == yy - era * 400
        mp == IF mo > 2 THEN mo - 3 ELSE mo + 9
        doy == (153 * mp + 2) \div 5 + d - 1
        doe == yoe * 365 + yoe \div 4 - yoe \div 100 + doy
    IN  era * 146097 + doe - 719468

\* The offset, in minutes, a valid zone names.
ZoneMinutes(s, z) ==
    IF s[z] \in {"Z", "z"} THEN 0
    ELSE (IF s[z] = "-" THEN -1 ELSE 1)
            * (NumberAt(s, z + 1, 2) * 60 + NumberAt(s, z + 4, 2))

\* The instant an RFC 3339 timestamp names: the UTC day, the second of
\* that day, and the digits of the fraction read as nanoseconds.
Instant(s) ==
    LET z == ZoneStart(s)
        sec == NumberAt(s, 12, 2) * 3600 + NumberAt(s, 15, 2) * 60
                 + NumberAt(s, 18, 2) - ZoneMinutes(s, z) * 60
        day == DaysFromCivil(NumberAt(s, 1, 4), NumberAt(s, 6, 2),
                             NumberAt(s, 9, 2))
        nano == IF z = 20 THEN 0 ELSE Nanosecond(s, 21).val
    IN  IF sec < 0 THEN <<day - 1, sec + 86400, nano>>
        ELSE IF sec >= 86400 THEN <<day + 1, sec - 86400, nano>>
        ELSE <<day, sec, nano>>

\* The text ends with the offset `+00:00`.
EndsInUtcOffset(s) ==
    Len(s) >= 6 /\ SubSeq(s, Len(s) - 5, Len(s)) = Offset(0)

(* C7: for every literal that is an RFC 3339 timestamp, with any offset,   *)
(* `dateTime(value: literal)` returns, with no error, the RFC 3339         *)
(* timestamp of the same instant with the offset `+00:00`; and sending the *)
(* returned string back returns it unchanged.                              *)
C7_NormalizesToUtc ==
    schemaMod = "generic_with_all_resolvers" =>
        /\ AsksString /\ ValidRfc3339(req.args[1].v.s) =>
             /\ pc \notin {"failed", "panicked"}
             /\ pc = "done" =>
                  /\ errors = <<>>
                  /\ data.fields[1].k = "String"
                  /\ ValidRfc3339(data.fields[1].s)
                  /\ EndsInUtcOffset(data.fields[1].s)
                  /\ Instant(data.fields[1].s) = Instant(req.args[1].v.s)
        /\ echoOf.some =>
             /\ pc \notin {"failed", "panicked"}
             /\ pc = "done" => errors = <<>> /\ data = SomeData(<<echoOf.out>>)

\* The request feeds the previous response back and its argument has been
\* decoded: native is decode(encode(v)) for v = echoOf.native.
RoundTripped ==
    /\ echoOf.some
    /\ pc \in {"resolve", "encode"}

(* C8 as claimed: for every binding and native value v, if the decoder     *)
(* accepts what the encoder made of v, decode(encode(v)) = v.              *)
C8_RoundTripForAll == RoundTripped => native = echoOf.native

(* C8: the round trip law holds of the bindings whose encoder and decoder  *)
(* are a pair (the default-derived Counter, and CustomDateTime): if the    *)
(* decoder accepts what the encoder made of v, decode(encode(v)) = v.  It  *)
(* does not hold of Increment, whose encoder adds 1 and whose decoder is   *)
(* the default one: there decode(encode(v)) is the encoder's output, v + 1 *)
(* (wrapped to i32::MIN where the addition overflows without a panic),     *)
(* and never v.                                                            *)
C8_RoundTripOfPairs ==
    RoundTripped =>
        IF schemaMod = "custom_to_output"
        THEN /\ native # echoOf.native
             /\ native = Wrapped(echoOf.out.n)
             /\ native.n = WrappingInc(echoOf.native.n)
        ELSE native = echoOf.native

\* A date-time has made the round trip, and so has an Increment.
C8_Witness ==
    /\ RoundTripped
    /\ \/ /\ schemaMod = "generic_with_all_resolvers"
          /\ native = WrappedDT(DateTime(1996, 12, 20, 2397, 0))
          /\ native = echoOf.native
       \/ /\ schemaMod = "custom_to_output"
          /\ echoOf.native = Wrapped(0)
          /\ native = Wrapped(1)

\* The lexical kind the binding's token validator delegates to: the rule
\* of the wrapped i32, or the String rule CustomDateTime names.
DelegateKind(d) == IF d.inner = "i32" THEN "Int" ELSE "String"

\* The literal arguments of the request whose lexical kind is not the
\* delegate's.
WrongKind ==
    {i \in 1 .. Len(req.args) :
        req.args[i].src = "literal"
            /\ req.args[i].v.k # DelegateKind(Dcl)}

(* C9: a binding's token validator accepts only the lexical kind of its    *)
(* delegate (Int for a default-derived integer wrapper; String, and so     *)
(* neither Int nor Float, for CustomDateTime).  A request with a literal   *)
(* of a rejected kind is answered by an error before execution begins:     *)
(* no decoder, resolver or encoder is ever called for it.                  *)
C9_TokenValidationGates ==
    /\ WrongKind # {} =>
         /\ pc \in {"parse", "failed"}
         /\ calls = NoCalls
         /\ data = NoData
    /\ pc = "failed" =>
         /\ calls = NoCalls
         /\ data = NoData
         /\ Len(errors) = 1
         /\ errors[1].path \in Rejected(Dcl, req)
    /\ req.op = "echo" /\ pc \notin {"parse", "failed"} =>
         \A i \in 1 .. Len(req.args) :
            req.args[i].src = "literal" =>
                inputs[i] = Val(DelegateKind(Dcl), req.args[i].v.n,
                                req.args[i].v.s)

\* An Int literal passed to CustomDateTime has been rejected, behind a
\* field whose literal is a String.
C9_Witness ==
    /\ schemaMod = "generic_with_all_resolvers"
    /\ pc = "failed"
    /\ Len(req.args) = 2
    /\ req.args[1].v.k = "String"
    /\ req.args[2] = Literal(Val("Int", 0, NoStr))
    /\ errors = <<[path |-> 2, msg |-> "Unexpected \"0\""]>>
    /\ calls = NoCalls

\* The error of field i, if the field has one.
FieldErrors(i) ==
    {errors[j].msg : j \in {k \in 1 .. Len(errors) : errors[k].path = i}}

\* The decoding of field i has failed: the resolver and the encoder were
\* not called for it, the field is null, and its error is msg.
FailedWith(i, msg) ==
    /\ FieldErrors(i) = {msg}
    /\ i \notin calls.res
    /\ i \notin calls.enc
    /\ Len(data.fields) >= i
    /\ data.fields[i] = NullValue

\* The causes of a parse failure.
Causes == {TooShort, TooLong, Invalid, OutOfRange}

\* The decoding of field i has failed with a cause of the parser.
FailedToParse(i) ==
    \E cause \in Causes :
        FailedWith(i, "Failed to parse CustomDateTime: " \o cause)

\* The fields of the echo request in hand whose argument is not a string
\* fail with the message for it, the fields whose argument is a timestamp
\* have no error, and a failure is local: every field of a request that
\* ends was decoded and has a result, the fields whose argument is a
\* timestamp were resolved and encoded, and every error is of a decoded
\* field.
FailuresAreLocal ==
    /\ \A i \in calls.dec :
         LET v == inputs[i]
         IN  /\ v.k # "String" =>
                 FailedWith(i, "Expected 'String', found: " \o Display(v))
             /\ v.k = "String" /\ ValidRfc3339(v.s) => FieldErrors(i) = {}
             /\ FieldErrors(i) = {} => v.k = "String"
    /\ pc = "done" =>
         /\ calls.dec = 1 .. Len(req.args)
         /\ Len(data.fields) = Len(req.args)
         /\ \A i \in 1 .. Len(req.args) :
              inputs[i].k = "String" /\ ValidRfc3339(inputs[i].s) =>
                  /\ i \in calls.res
                  /\ i \in calls.enc
                  /\ data.fields[i].k = "String"
    /\ errors # <<>> /\ pc # "failed" =>
         \A j \in 1 .. Len(errors) : errors[j].path \in calls.dec

(* C10 as claimed: CustomDateTime::from_input returns an error, never a    *)
(* value, for every input that is not a string ("Expected `String`,        *)
(* found: <input>") and for every string that is not an RFC 3339 timestamp *)
(* ("Failed to parse CustomDateTime: <cause>").  The field whose argument  *)
(* fails to decode gets that message as its error and a null result, and   *)
(* its resolver is not called; the other fields of the request are         *)
(* decoded, resolved and encoded as usual, and the request runs to its     *)
(* end.                                                                    *)
C10_RejectsEveryNonTimestamp ==
    schemaMod = "generic_with_all_resolvers" /\ req.op = "echo" =>
        /\ FailuresAreLocal
        /\ \A i \in calls.dec :
             inputs[i].k = "String" /\ ~ValidRfc3339(inputs[i].s) =>
                 FailedToParse(i)

\* The text with `T` for a space that separates date and time, `-` for a
\* U+2212 that opens the offset, and `Z` for a closing `UTC`.
Strict(s) ==
    LET t == IF Len(s) >= 11 /\ s[11] = " "
             THEN [s EXCEPT ![11] = "T"] ELSE s
        z == IF Len(t) >= 20 THEN ZoneStart(t) ELSE 0
    IN  IF z = 0 \/ z > Len(t) THEN t
        ELSE IF Len(t) = z + 7 /\ SubSeq(t, z, z + 2) = Utf8Minus
             THEN SubSeq(t, 1, z - 1) \o <<"-">> \o SubSeq(t, z + 3, Len(t))
        ELSE IF /\ Len(t) = z + 2
                /\ t[z] \in {"U", "u"}
                /\ t[z + 1] \in {"T", "t"}
                /\ t[z + 2] \in {"C", "c"}
             THEN SubSeq(t, 1, z - 1) \o Zulu
        ELSE t

\* The text is an RFC 3339 timestamp but for the liberties chrono's parser
\* takes, of which a release takes some.
LenientRfc3339(s) == ValidRfc3339(Strict(s))

(* C10: CustomDateTime::from_input returns an error, never a value, for    *)
(* every input that is not a string ("Expected `String`, found: <input>")  *)
(* and for every string that chrono's parser rejects ("Failed to parse     *)
(* CustomDateTime: <cause>", the cause one of chrono's four).  The parser  *)
(* rejects every string that is not an RFC 3339 timestamp, except that,    *)
(* depending on the chrono release, it takes a space for the `T`, U+2212   *)
(* for the `-` of the offset, or `UTC` for the `Z`; it accepts every RFC   *)
(* 3339 timestamp.  The field whose argument fails to decode gets the      *)
(* message as its error and a null result, and its resolver is not called; *)
(* the other fields of the request are decoded, resolved and encoded as    *)
(* usual, and the request runs to its end.                                 *)
C10_DecodeFailureIsLocal ==
    schemaMod = "generic_with_all_resolvers" /\ req.op = "echo" =>
        /\ FailuresAreLocal
        /\ \A i \in calls.dec :
             LET v == inputs[i]
             IN  /\ v.k = "String" /\ ~LenientRfc3339(v.s) =>
                     FailedToParse(i)
                 /\ v.k = "String" /\ FieldErrors(i) # {} =>
                     /\ FailedToParse(i)
                     /\ ~ValidRfc3339(v.s)
                 /\ v = StringValue(NotADate) =>
                     FailedWith(i, "Failed to parse CustomDateTime: "
                                      \o (IF build.rfc3339_parser = "scanning"
                                          THEN Invalid ELSE TooShort))

\* The first field got a variable that is no string and failed; the second
\* field was resolved after it and the request ended.  Or the one field got
\* a string that is no timestamp and failed.
C10_Witness ==
    /\ schemaMod = "generic_with_all_resolvers"
    /\ pc = "done"
    /\ \/ /\ Len(req.args) = 2
          /\ req.args[1] = Variable(IntValue(0))
          /\ errors = <<[path |-> 1, msg |-> "Expected 'String', found: 0"]>>
          /\ data.fields[1] = NullValue
          /\ Text(data.fields[2].s) = "1996-12-20T00:39:57+00:00"
          /\ calls.res = {2}
       \/ /\ Len(req.args) = 2
          /\ req.args[1] = Literal(StringValue(NotADate))
          /\ errors[1].msg =
               "Failed to parse CustomDateTime: premature end of input"
          /\ data.fields[1] = NullValue
          /\ Text(data.fields[2].s) = "1996-12-20T00:39:57+00:00"
          /\ calls.res = {2}

====
